---- MODULE Spec2Model ----
(***************************************************************************)
(* A model of the Forge backend loader (backend/loader.py) and of its      *)
(* 4-bit quantized parameter and layer (backend/operations_bnb.py).        *)
(*                                                                         *)
(* Keys of a state dict are sequences of their dot-separated segments:     *)
(* "a.weight.absmax" is <<"a", "weight", "absmax">>.  Every prefix the     *)
(* code filters by ends with a dot, so startswith on the text is           *)
(* IsPrefix on the segments.                                               *)
(***************************************************************************)
EXTENDS Integers, Sequences, FiniteSets, TLC

VARIABLES
    layer,       \* the ForgeLoader4Bit: dummy, weight, quant_state, bias
    saved,       \* the destination dict _save_to_state_dict writes into
    savedQS,     \* the quant_state of the weight whose entries saved holds
    nquant,      \* how many times the layer's weight ran _quantize
    origin,      \* the branch of _load_from_state_dict that built the weight
    last,        \* the operation that produced the current state
    splitter,    \* a call of split_state_dict: its arguments and what it returns
    forge        \* a call of forge_loader: its arguments, position and result

bnbVars == <<layer, saved, savedQS, nquant, origin, last>>

loaderVars == <<splitter, forge>>

vars == <<layer, saved, savedQS, nquant, origin, last, splitter, forge>>

-----------------------------------------------------------------------------
(* Bounds *)

\* number of distinct raw weight tensors a state dict may carry
NData == 1
\* number of tensors a checkpoint may hold under each of its key prefixes
NTail == 1

-----------------------------------------------------------------------------
(* Values *)

NoneV == [tag |-> "None"]

Tensor(v, d) == [tag |-> "tensor", val |-> v, dev |-> d]

\* torch.Tensor.to(device)
TensorTo(t, d) == [t EXCEPT !.dev = d]

Devices == {"cpu", "cuda:0", "cuda:1"}

DeviceType(d) == IF d = "cpu" THEN "cpu" ELSE "cuda"

DataNames == <<"w1", "w2", "w3">>

DataVals == {<<DataNames[i]>> : i \in 1..NData}

\* the names a layer goes by in its model
Prefixes == {<<"blocks", "a">>}

IsPrefix(p, k) == Len(p) <= Len(k) /\ SubSeq(k, 1, Len(p)) = p

StripPrefix(p, k) == SubSeq(k, Len(p) + 1, Len(k))

EmptyDict == [k \in {} |-> NoneV]

-----------------------------------------------------------------------------
(* bitsandbytes QuantState, as operations_bnb.py builds and reads it *)

QuantState(absmax, shape, code, blocksize, quant_type, dtype, offset, state2) ==
    [tag |-> "QuantState", absmax |-> absmax, shape |-> shape, code |-> code,
     blocksize |-> blocksize, quant_type |-> quant_type, dtype |-> dtype,
     offset |-> offset, state2 |-> state2, nested |-> (state2 # NoneV)]

copy_quant_state_stale_device(state, device) ==
    IF state = NoneV THEN NoneV
    ELSE LET dev == IF device # "None" THEN device ELSE state.absmax.dev
             state2 == IF state.nested
                       THEN QuantState(state.state2.absmax,
                                       state.state2.shape,
                                       state.state2.code,
                                       state.state2.blocksize,
                                       state.state2.quant_type,
                                       state.state2.dtype, NoneV, NoneV)
                       ELSE NoneV
         IN  QuantState(TensorTo(state.absmax, dev), state.shape,
                        TensorTo(state.code, dev), state.blocksize,
                        state.quant_type, state.dtype,
                        IF state.nested THEN TensorTo(state.offset, dev) ELSE NoneV,
                        state2)

copy_quant_state(state, device) ==
    IF state = NoneV THEN NoneV
    ELSE LET dev == IF device # "None" THEN device ELSE state.absmax.dev
             state2 == IF state.nested
                       THEN QuantState(TensorTo(state.state2.absmax, dev),
                                       state.state2.shape,
                                       TensorTo(state.state2.code, dev),
                                       state.state2.blocksize,
                                       state.state2.quant_type,
                                       state.state2.dtype, NoneV, NoneV)
                       ELSE NoneV
         IN  QuantState(TensorTo(state.absmax, dev), state.shape,
                        TensorTo(state.code, dev), state.blocksize,
                        state.quant_type, state.dtype,
                        IF state.nested THEN TensorTo(state.offset, dev) ELSE NoneV,
                        state2)

\* str(dtype).strip("torch.") and getattr(torch, name), on the dtypes quantized
\* weights are rebuilt in
DtypeName(dt) ==
    CASE dt = "torch.float16" -> "float16"
      [] dt = "torch.bfloat16" -> "bfloat16"
      [] dt = "torch.float32" -> "float32"

DtypeOfName(n) ==
    CASE n = "float16" -> "torch.float16"
      [] n = "bfloat16" -> "torch.bfloat16"
      [] n = "float32" -> "torch.float32"

QsTypeKey(quant_type) ==
    CASE quant_type = "nf4" -> "bitsandbytes__nf4"
      [] quant_type = "fp4" -> "bitsandbytes__fp4"

valid_qs_type_keys == {"bitsandbytes__nf4", "bitsandbytes__fp4"}

\* QuantState.as_dict(packed=True): the tensors under their own keys, the
\* other fields packed into one entry "quant_state.bitsandbytes__<quant_type>"
as_dict(qs) ==
    LET base == [quant_type |-> qs.quant_type, blocksize |-> qs.blocksize,
                 dtype |-> DtypeName(qs.dtype), shape |-> qs.shape]
        non_tensor == IF qs.nested
                      THEN base @@ [nested_blocksize |-> qs.state2.blocksize,
                                    nested_dtype |-> DtypeName(qs.state2.dtype),
                                    nested_offset |-> qs.offset.val]
                      ELSE base
        tensors == (<<"absmax">> :> qs.absmax) @@ (<<"quant_map">> :> qs.code) @@
                   (IF qs.nested
                    THEN (<<"nested_absmax">> :> qs.state2.absmax) @@
                         (<<"nested_quant_map">> :> qs.state2.code)
                    ELSE EmptyDict)
    IN  tensors @@
        (<<"quant_state", QsTypeKey(qs.quant_type)>> :>
            [tag |-> "packed", dict |-> non_tensor])

HasSegment(k, s) == \E i \in 1..Len(k) : k[i] = s

LastSegment(k) == k[Len(k)]

ErrorV == [tag |-> "error"]

\* QuantState.from_dict(qs_dict, device)
from_dict(qs_dict, device) ==
    LET qs_key == {k \in DOMAIN qs_dict :
                      HasSegment(k, "quant_state") /\ qs_dict[k].tag = "packed"}
    IN  IF Cardinality(qs_key) # 1 THEN ErrorV
        ELSE LET first_qs_key == CHOOSE k \in qs_key : TRUE
                 packed == qs_dict[first_qs_key].dict
                 names == {LastSegment(k) : k \in DOMAIN qs_dict \ qs_key}
                 get(n) == qs_dict[CHOOSE k \in DOMAIN qs_dict \ qs_key :
                                       LastSegment(k) = n]
             IN  IF \/ LastSegment(first_qs_key) \notin valid_qs_type_keys
                    \/ ~({"absmax", "quant_map"} \subseteq names)
                    \/ ~(names \subseteq {"absmax", "quant_map", "nested_absmax",
                                          "nested_quant_map"})
                    \/ ("nested_absmax" \in names /\
                        ~("nested_quant_map" \in names /\
                          "nested_offset" \in DOMAIN packed))
                 THEN ErrorV
                 ELSE LET nested == "nested_absmax" \in names
                          offset == IF nested
                                    THEN Tensor(packed.nested_offset, device)
                                    ELSE NoneV
                          state2 == IF nested
                                    THEN QuantState(
                                           TensorTo(get("nested_absmax"), device),
                                           NoneV,
                                           TensorTo(get("nested_quant_map"), device),
                                           packed.nested_blocksize, NoneV,
                                           DtypeOfName(packed.nested_dtype),
                                           NoneV, NoneV)
                                    ELSE NoneV
                      IN  QuantState(TensorTo(get("absmax"), device),
                                     packed.shape,
                                     TensorTo(get("quant_map"), device),
                                     packed.blocksize, packed.quant_type,
                                     DtypeOfName(packed.dtype), offset, state2)

-----------------------------------------------------------------------------
(* ForgeParams4bit *)

Shape(v) == [tag |-> "shape", of |-> v]

IsPacked(t) == Head(t.val) = "packed"

\* Params4bit.__new__ as ForgeParams4bit(...) calls it
ForgeParams4bit(data, quant_state, blocksize, compress_statistics, quant_type, bnb_quantized, dtype) ==
    [tag |-> "ForgeParams4bit", data |-> data, quant_state |-> quant_state,
     blocksize |-> blocksize, compress_statistics |-> compress_statistics,
     quant_type |-> quant_type, bnb_quantized |-> bnb_quantized,
     dtype |-> dtype]

\* Params4bit._quantize(device), called at operations_bnb.py line 50: the data
\* is packed on the device and a fresh state is attached; compressed
\* statistics make the state nested
quantize(w, device) ==
    LET v == w.data.val
        state2 == IF w.compress_statistics
                  THEN QuantState(Tensor(<<"absmax2">> \o v, device), NoneV,
                                  Tensor(<<"code2">>, device), 256, NoneV,
                                  "torch.float32", NoneV, NoneV)
                  ELSE NoneV
        offset == IF w.compress_statistics
                  THEN Tensor(<<"offset">> \o v, device) ELSE NoneV
        qs == QuantState(Tensor(<<"absmax">> \o v, device), Shape(v),
                         Tensor(<<"code", w.quant_type>>, device), w.blocksize,
                         w.quant_type, w.dtype, offset, state2)
    IN  [w EXCEPT !.data = Tensor(<<"packed">> \o v, device),
                  !.quant_state = qs,
                  !.bnb_quantized = TRUE]

\* the condition of ForgeParams4bit.to that sends the call to _quantize
should_quantize_any_cuda(w, device) ==
    device # "None" /\ DeviceType(device) = "cuda"

should_quantize(w, device) ==
    device # "None" /\ DeviceType(device) = "cuda" /\ ~w.bnb_quantized

\* the else branch of ForgeParams4bit.to: a new parameter on the device with
\* a copy of the state
relocate_drops_state(w, device) ==
    ForgeParams4bit(
        IF device # "None" THEN TensorTo(w.data, device) ELSE w.data,
        NoneV, w.blocksize, w.compress_statistics,
        w.quant_type, w.bnb_quantized, w.dtype)

relocate(w, device) ==
    ForgeParams4bit(
        IF device # "None" THEN TensorTo(w.data, device) ELSE w.data,
        copy_quant_state(w.quant_state, device),
        w.blocksize, w.compress_statistics,
        w.quant_type, w.bnb_quantized, w.dtype)

-----------------------------------------------------------------------------
(* ForgeLoader4Bit *)

\* ForgeLoader4Bit.__init__(device, dtype, quant_type)
ForgeLoader4Bit(device, dtype, quant_type) ==
    [dummy |-> Tensor(<<"empty">>, device), dtype |-> dtype, weight |-> NoneV,
     quant_state |-> NoneV, bias |-> NoneV, quant_type |-> quant_type]

HasDummy(self) == self.dummy # NoneV

\* the keys of state_dict under prefix + "weight.", with that prefix cut
quant_state_keys(state_dict, prefix) ==
    {StripPrefix(prefix \o <<"weight">>, k) :
        k \in {j \in DOMAIN state_dict : IsPrefix(prefix \o <<"weight">>, j)
                                         /\ Len(j) > Len(prefix) + 1}}

\* 'bitsandbytes' in k
MentionsBnb(k) == \E i \in 1..Len(k) : k[i] \in valid_qs_type_keys

\* which branch of _load_from_state_dict a call takes
LoadBranch(self, state_dict, prefix) ==
    IF \E k \in quant_state_keys(state_dict, prefix) : MentionsBnb(k)
    THEN "prequant"
    ELSE IF HasDummy(self) THEN "fresh" ELSE "super"

\* Params4bit.from_prequantized(data, quantized_stats, device), line 90
from_prequantized(data, quantized_stats, device) ==
    LET qs == from_dict(quantized_stats, device)
    IN  IF qs = ErrorV THEN ErrorV
        ELSE ForgeParams4bit(TensorTo(data, device), qs, qs.blocksize,
                             qs.nested, qs.quant_type, TRUE, qs.dtype)

\* torch.nn.Module._load_from_state_dict on an existing parameter: copied in
\* place when the shapes agree
CopyInto(param, state_dict, key) ==
    IF param # NoneV /\ key \in DOMAIN state_dict
       /\ IsPacked(state_dict[key]) = IsPacked(param)
    THEN [param EXCEPT !.val = state_dict[key].val]
    ELSE param

\* ForgeLoader4Bit._load_from_state_dict: the layer after the call, or ErrorV
\* when the call raises
_load_from_state_dict(self, state_dict, prefix) ==
    LET keys == quant_state_keys(state_dict, prefix)
        wkey == prefix \o <<"weight">>
        bkey == prefix \o <<"bias">>
        bias == IF bkey \in DOMAIN state_dict
                THEN TensorTo(state_dict[bkey], self.dummy.dev)
                ELSE self.bias
    IN  IF \E k \in keys : MentionsBnb(k)
        THEN IF wkey \notin DOMAIN state_dict \/ ~HasDummy(self) THEN ErrorV
             ELSE LET quant_state_dict ==
                          [k \in keys |-> state_dict[wkey \o k]]
                      weight == from_prequantized(state_dict[wkey],
                                    quant_state_dict, self.dummy.dev)
                  IN  IF weight = ErrorV THEN ErrorV
                      ELSE [self EXCEPT !.weight = weight,
                                         !.quant_state = weight.quant_state,
                                         !.bias = bias,
                                         !.dummy = NoneV]
        ELSE IF HasDummy(self)
        THEN IF wkey \in DOMAIN state_dict
             THEN LET weight == ForgeParams4bit(
                                    TensorTo(state_dict[wkey], self.dummy.dev),
                                    NoneV, 64, TRUE, self.quant_type, FALSE,
                                    self.dtype)
                  IN  [self EXCEPT !.weight = weight,
                                    !.quant_state = weight.quant_state,
                                    !.bias = bias,
                                    !.dummy = NoneV]
             ELSE [self EXCEPT !.bias = bias, !.dummy = NoneV]
        ELSE [self EXCEPT
                 !.weight = IF self.weight = NoneV THEN NoneV
                            ELSE [self.weight EXCEPT
                                     !.data = CopyInto(self.weight.data,
                                                       state_dict, wkey)],
                 !.bias = CopyInto(self.bias, state_dict, bkey)]

\* the entries ForgeLoader4Bit._save_to_state_dict writes for a layer
save_entries_no_weight_segment(self, prefix) ==
    LET plain == (IF HasDummy(self) THEN (prefix \o <<"dummy">>) :> self.dummy
                  ELSE EmptyDict) @@
                 (IF self.weight # NoneV
                  THEN (prefix \o <<"weight">>) :> self.weight.data
                  ELSE EmptyDict) @@
                 (IF self.bias # NoneV THEN (prefix \o <<"bias">>) :> self.bias
                  ELSE EmptyDict)
        quant_state == IF self.weight = NoneV THEN NoneV
                       ELSE self.weight.quant_state
    IN  IF quant_state # NoneV
        THEN LET d == as_dict(quant_state)
             IN  [k \in {prefix \o j : j \in DOMAIN d} |->
                     d[StripPrefix(prefix, k)]] @@ plain
        ELSE plain

save_entries(self, prefix) ==
    LET plain == (IF HasDummy(self) THEN (prefix \o <<"dummy">>) :> self.dummy
                  ELSE EmptyDict) @@
                 (IF self.weight # NoneV
                  THEN (prefix \o <<"weight">>) :> self.weight.data
                  ELSE EmptyDict) @@
                 (IF self.bias # NoneV THEN (prefix \o <<"bias">>) :> self.bias
                  ELSE EmptyDict)
        quant_state == IF self.weight = NoneV THEN NoneV
                       ELSE self.weight.quant_state
    IN  IF quant_state # NoneV
        THEN LET d == as_dict(quant_state)
             IN  [k \in {prefix \o <<"weight">> \o j : j \in DOMAIN d} |->
                     d[StripPrefix(prefix \o <<"weight">>, k)]] @@ plain
        ELSE plain

-----------------------------------------------------------------------------
(* The state dicts a layer is loaded from *)

CtorArgs ==
    {[device |-> "cpu", dtype |-> "torch.float16", quant_type |-> "nf4"],
     [device |-> "cuda:0", dtype |-> "torch.bfloat16", quant_type |-> "fp4"]}

\* a state as a checkpoint quantized by bitsandbytes carries it
CheckpointState(v, quant_type, nested) ==
    QuantState(Tensor(<<"absmax", v>>, "cpu"), Shape(<<v>>),
               Tensor(<<"code", quant_type>>, "cpu"), 64, quant_type,
               "torch.bfloat16",
               IF nested THEN Tensor(<<"offset", v>>, "cpu") ELSE NoneV,
               IF nested
               THEN QuantState(Tensor(<<"absmax2", v>>, "cpu"), NoneV,
                               Tensor(<<"code2">>, "cpu"), 256, NoneV,
                               "torch.float32", NoneV, NoneV)
               ELSE NoneV)

CheckpointStates ==
    {CheckpointState("p1", "nf4", TRUE), CheckpointState("p1", "fp4", FALSE)}

Prefixed(d, pre) ==
    [k \in {pre \o j : j \in DOMAIN d} |-> d[StripPrefix(pre, k)]]

\* the entries of another, unrelated quantized layer of the same checkpoint
Decoy ==
    (<<"other", "weight">> :> Tensor(<<"packed", "p0">>, "cpu")) @@
    Prefixed(as_dict(CheckpointState("p0", "nf4", TRUE)), <<"other", "weight">>)

PackedWeight == Tensor(<<"packed", "p1">>, "cpu")

InputStateDicts(p) ==
    LET w == p \o <<"weight">>
        b == (p \o <<"bias">>) :> Tensor(<<"b1">>, "cpu")
    IN  {(w :> Tensor(v, "cpu")) @@ Decoy : v \in DataVals}
        \cup {b @@ Decoy, Decoy}
        \cup {(w :> PackedWeight) @@ Prefixed(as_dict(qs), w) @@ Decoy :
                 qs \in CheckpointStates}
        \* statistics entries without the packed "quant_state.bitsandbytes__*"
        \cup {(w :> PackedWeight) @@
                ((w \o <<"absmax">>) :> Tensor(<<"absmax", "p1">>, "cpu"))}
        \* statistics entries without the weight itself
        \cup {Prefixed(as_dict(CheckpointState("p1", "nf4", FALSE)), w)}

-----------------------------------------------------------------------------
(* Actions on the layer *)

NoOp == [op |-> "init", prefix |-> <<>>, device |-> "None",
         src |-> "none", branch |-> "none", ok |-> TRUE, hadDummy |-> FALSE]

\* ForgeLoader4Bit(device, dtype, quant_type): a new layer takes the place of
\* the one loaded before
Construct(a) ==
    /\ ~HasDummy(layer)
    /\ layer' = ForgeLoader4Bit(a.device, a.dtype, a.quant_type)
    /\ nquant' = 0
    /\ origin' = "none"
    /\ last' = [NoOp EXCEPT !.op = "construct"]
    /\ UNCHANGED <<saved, savedQS, loaderVars>>

\* layer._load_from_state_dict(state_dict, p, ...)
Load(p, state_dict, src) ==
    LET result == _load_from_state_dict(layer, state_dict, p)
    IN  /\ layer' = IF result = ErrorV THEN layer ELSE result
        /\ last' = [NoOp EXCEPT !.op = "load", !.prefix = p, !.src = src,
                                !.branch = LoadBranch(layer, state_dict, p),
                                !.ok = (result # ErrorV),
                                !.hadDummy = HasDummy(layer)]
        /\ origin' = IF result = ErrorV THEN origin
                     ELSE IF LoadBranch(layer, state_dict, p) = "prequant"
                     THEN "prequant"
                     ELSE IF HasDummy(layer) /\ result.weight # NoneV
                     THEN "plain"
                     ELSE origin
        /\ UNCHANGED <<saved, savedQS, nquant, loaderVars>>

LoadInput(p) ==
    \E state_dict \in InputStateDicts(p) : Load(p, state_dict, "input")

LoadSaved(p) ==
    /\ saved # EmptyDict
    /\ Load(p, saved, "saved")

\* layer.weight.to(device); the layer keeps the parameter the call returns
To(device) ==
    LET w == layer.weight
    IN  /\ w # NoneV
        /\ IF should_quantize(w, device)
           THEN LET n == quantize(w, device)
                IN  /\ layer' = [layer EXCEPT !.weight = n,
                                              !.quant_state = n.quant_state]
                    /\ nquant' = nquant + 1
           ELSE LET n == relocate(w, device)
                IN  /\ layer' = [layer EXCEPT !.weight = n,
                                              !.quant_state = n.quant_state]
                    /\ nquant' = nquant
        /\ last' = [NoOp EXCEPT !.op = "to", !.device = device]
        /\ UNCHANGED <<saved, savedQS, origin, loaderVars>>

\* layer._save_to_state_dict(destination, p) into a new destination that
\* already holds the entries of the unrelated layer
Save(p) ==
    /\ saved' = save_entries(layer, p) @@ Decoy
    /\ savedQS' = IF layer.weight = NoneV THEN NoneV
                  ELSE layer.weight.quant_state
    /\ last' = [NoOp EXCEPT !.op = "save", !.prefix = p]
    /\ UNCHANGED <<layer, nquant, origin, loaderVars>>

Init ==
    /\ layer \in {ForgeLoader4Bit(a.device, a.dtype, a.quant_type) :
                     a \in CtorArgs}
    /\ saved = EmptyDict
    /\ savedQS = NoneV
    /\ nquant = 0
    /\ origin = "none"
    /\ last = NoOp
    /\ splitter = [pc |-> "idle"]
    /\ forge = [pc |-> "idle"]

Next ==
    \/ \E a \in CtorArgs : Construct(a)
    \/ \E p \in Prefixes : LoadInput(p)
    \/ \E p \in Prefixes : LoadSaved(p)
    \/ \E device \in Devices \cup {"None"} : To(device)
    \/ \E p \in Prefixes : Save(p)

Spec == Init /\ [][Next]_vars

-----------------------------------------------------------------------------
(* Properties of the quantized parameter and layer *)

IsQuantized(w) == w # NoneV /\ w.bnb_quantized

\* the fields of a quantization state, wherever its tensors are
StateValues(qs) ==
    [absmax |-> qs.absmax.val, shape |-> qs.shape, code |-> qs.code.val,
     blocksize |-> qs.blocksize, quant_type |-> qs.quant_type,
     dtype |-> qs.dtype, nested |-> qs.nested,
     offset |-> IF qs.offset = NoneV THEN <<>> ELSE qs.offset.val,
     state2 |-> IF qs.state2 = NoneV THEN NoneV
                ELSE [absmax |-> qs.state2.absmax.val,
                      code |-> qs.state2.code.val,
                      blocksize |-> qs.state2.blocksize,
                      dtype |-> qs.state2.dtype]]

\* every tensor of the state is on device d
StateOn(qs, d) ==
    /\ qs.absmax.dev = d
    /\ qs.code.dev = d
    /\ qs.offset # NoneV => qs.offset.dev = d
    /\ qs.state2 # NoneV => qs.state2.absmax.dev = d /\ qs.state2.code.dev = d

\* C7: a step quantizes the weight only when the weight was not quantized and
\* the step is a to() towards a cuda device; a to() on a quantized weight
\* leaves the packed data and every field of the state as they were and only
\* moves them; so a weight is quantized at most once, and a weight built from
\* a pre-quantized state dict never is.
C7_QuantizedOnlyOnTransfer ==
    /\ [](nquant <= 1 /\ (origin = "prequant" => nquant = 0))
    /\ [][/\ nquant' > nquant =>
                /\ last'.op = "to"
                /\ ~layer.weight.bnb_quantized
                /\ DeviceType(last'.device) = "cuda"
          /\ (last'.op = "to" /\ IsQuantized(layer.weight)) =>
                /\ nquant' = nquant
                /\ layer'.weight.bnb_quantized
                /\ layer'.weight.data.val = layer.weight.data.val
                /\ StateValues(layer'.weight.quant_state)
                     = StateValues(layer.weight.quant_state)
                /\ last'.device # "None" =>
                      /\ layer'.weight.data.dev = last'.device
                      /\ StateOn(layer'.weight.quant_state, last'.device)]_vars

\* a weight built from a pre-quantized state dict was moved to a cuda device
C7_Witness ==
    /\ origin = "prequant"
    /\ last.op = "to"
    /\ last.device = "cuda:1"
    /\ IsQuantized(layer.weight)
    /\ nquant = 0

\* C8: a weight is never half quantized: it is marked quantized exactly when
\* it carries a quantization state.
C8_QuantizedIffState ==
    layer.weight # NoneV =>
        (layer.weight.bnb_quantized <=> layer.weight.quant_state # NoneV)

\* a quantized weight was moved by to() after its load
C8_Witness ==
    /\ last.op = "to"
    /\ IsQuantized(layer.weight)
    /\ layer.weight.quant_state # NoneV
    /\ nquant = 0

KeepsStructure(a, b, device) ==
    IF a = NoneV THEN b = NoneV
    ELSE /\ b # NoneV
         /\ (b.state2 # NoneV) <=> a.nested
         /\ (b.offset # NoneV) <=> a.nested
         /\ b.nested <=> a.nested
         /\ b.shape = a.shape
         /\ b.blocksize = a.blocksize
         /\ b.quant_type = a.quant_type
         /\ b.dtype = a.dtype
         /\ StateOn(b, IF device # "None" THEN device ELSE a.absmax.dev)

\* C10: copy_quant_state and the relocating branch of to() keep the structure
\* of the state (a second level and an offset exactly when the state is
\* nested; shape, blocksize, quant_type and dtype as they were), an absent
\* state stays absent, and after a to() with a target device the data and
\* every tensor of the state are on that device.
C10_CopyKeepsStructure ==
    /\ layer.weight # NoneV =>
          \A device \in Devices \cup {"None"} :
              /\ KeepsStructure(layer.weight.quant_state,
                                copy_quant_state(layer.weight.quant_state, device),
                                device)
              /\ KeepsStructure(layer.weight.quant_state,
                                relocate(layer.weight, device).quant_state,
                                device)
              /\ device # "None" =>
                    relocate(layer.weight, device).data.dev = device
    /\ (last.op = "to" /\ last.device # "None") =>
          /\ layer.weight.data.dev = last.device
          /\ layer.weight.quant_state # NoneV =>
                StateOn(layer.weight.quant_state, last.device)

\* a weight loaded with a nested state was moved to another device, by the
\* relocating branch
C10_Witness ==
    /\ origin = "prequant"
    /\ last.op = "to"
    /\ last.device = "cuda:1"
    /\ IsQuantized(layer.weight)
    /\ layer.weight.quant_state.nested
    /\ layer.weight.quant_state.offset.dev = "cuda:1"
    /\ layer.weight.quant_state.state2.absmax.dev = "cuda:1"

-----------------------------------------------------------------------------
(* split_state_dict *)

Restrict(d, K) == [k \in K |-> d[k]]

Put(d, k, v) == (k :> v) @@ d

\* filter_state_dict_with_prefix of backend.state_dict: the entries whose key
\* starts with the prefix, under the key with the prefix cut, and the blob
\* without them
filter_state_dict_with_prefix(sd, prefix) ==
    LET M == {j \in DOMAIN sd : IsPrefix(prefix, j) /\ Len(j) > Len(prefix)}
    IN  [taken |-> [k \in {StripPrefix(prefix, j) : j \in M} |-> sd[prefix \o k]],
         rest |-> Restrict(sd, DOMAIN sd \ M)]

\* try_filter_state_dict of backend.state_dict: the first prefix of the list
\* that matches anything decides
RECURSIVE try_filter_state_dict(_, _)
try_filter_state_dict(sd, filter_keys) ==
    IF filter_keys = <<>> THEN [taken |-> EmptyDict, rest |-> sd]
    ELSE LET x == filter_state_dict_with_prefix(sd, Head(filter_keys))
         IN  IF DOMAIN x.taken # {} THEN x
             ELSE try_filter_state_dict(sd, Tail(filter_keys))

\* the key guess.process_clip_state_dict gives a key: the text encoder's
\* prefix in the checkpoint renamed to the prefix of its clip target
ClipKey(guess, k) ==
    LET R == {i \in 1..Len(guess.replace_prefix) :
                 IsPrefix(guess.replace_prefix[i].from, k)}
    IN  IF R = {} THEN k
        ELSE LET r == guess.replace_prefix[CHOOSE i \in R : \A j \in R : i <= j]
             IN  r.to \o StripPrefix(r.from, k)

process_clip_state_dict(guess, sd) ==
    [n \in {ClipKey(guess, k) : k \in DOMAIN sd} |->
        sd[CHOOSE k \in DOMAIN sd : ClipKey(guess, k) = n]]

\* the loop of split_state_dict over guess.clip_target.items()
RECURSIVE ClipLoop(_, _, _)
ClipLoop(state_dict, sd, targets) ==
    IF targets = <<>> THEN [state_dict |-> state_dict, sd |-> sd]
    ELSE LET x == try_filter_state_dict(sd, <<Head(targets).k>>)
         IN  ClipLoop(Put(state_dict, Head(targets).v, x.taken), x.rest,
                      Tail(targets))

split_state_dict_vae_from_main(sd, sd_vae, guess) ==
    LET u == try_filter_state_dict(sd, guess.unet_key_prefix)
        v == try_filter_state_dict(u.rest, guess.vae_key_prefix)
        first == Put(Put(EmptyDict, guess.unet_target, u.taken),
                     guess.vae_target, v.taken)
        c == ClipLoop(first, process_clip_state_dict(guess, v.rest),
                      guess.clip_target)
    IN  [state_dict |-> c.state_dict, ignore |-> c.sd, guess |-> guess]

split_state_dict_clip_from_whole(sd, sd_vae, guess) ==
    LET u == try_filter_state_dict(sd, guess.unet_key_prefix)
        v == IF sd_vae = NoneV
             THEN try_filter_state_dict(u.rest, guess.vae_key_prefix)
             ELSE [taken |-> sd_vae.entries, rest |-> u.rest]
        first == Put(Put(EmptyDict, guess.unet_target, u.taken),
                     guess.vae_target, v.taken)
        c == ClipLoop(first, process_clip_state_dict(guess, sd),
                      guess.clip_target)
    IN  [state_dict |-> c.state_dict, ignore |-> c.sd, guess |-> guess]

\* split_state_dict(sd, sd_vae) once huggingface_guess.guess(sd) returned
\* guess: the subsets by target, the blob that is left (printed as 'ignore'
\* and dropped) and the guess
split_state_dict(sd, sd_vae, guess) ==
    LET u == try_filter_state_dict(sd, guess.unet_key_prefix)
        v == IF sd_vae = NoneV
             THEN try_filter_state_dict(u.rest, guess.vae_key_prefix)
             ELSE [taken |-> sd_vae.entries, rest |-> u.rest]
        first == Put(Put(EmptyDict, guess.unet_target, u.taken),
                     guess.vae_target, v.taken)
        c == ClipLoop(first, process_clip_state_dict(guess, v.rest),
                      guess.clip_target)
    IN  [state_dict |-> c.state_dict, ignore |-> c.sd, guess |-> guess]

-----------------------------------------------------------------------------
(* The architectures huggingface_guess recognizes and their checkpoints *)

SD15 ==
    [name |-> "SD15", mro |-> {"SD15"},
     huggingface_repo |-> "runwayml/stable-diffusion-v1-5",
     unet_target |-> "unet", vae_target |-> "vae",
     unet_key_prefix |-> << <<"model", "diffusion_model">> >>,
     vae_key_prefix |-> << <<"first_stage_model">> >>,
     clip_target |-> << [k |-> <<"clip_l">>, v |-> "text_encoder"] >>,
     replace_prefix |-> << [from |-> <<"cond_stage_model">>, to |-> <<"clip_l">>] >>]

SDXL ==
    [name |-> "SDXL", mro |-> {"SDXL"},
     huggingface_repo |-> "stabilityai/stable-diffusion-xl-base-1.0",
     unet_target |-> "unet", vae_target |-> "vae",
     unet_key_prefix |-> << <<"model", "diffusion_model">> >>,
     vae_key_prefix |-> << <<"first_stage_model">> >>,
     clip_target |-> << [k |-> <<"clip_l">>, v |-> "text_encoder"],
                        [k |-> <<"clip_g">>, v |-> "text_encoder_2"] >>,
     replace_prefix |->
        << [from |-> <<"conditioner", "embedders", "0">>, to |-> <<"clip_l">>],
           [from |-> <<"conditioner", "embedders", "1">>, to |-> <<"clip_g">>] >>]

TailNames == <<"t1", "t2", "t3">>

KeyHeads ==
    {<<"model", "diffusion_model">>, <<"first_stage_model">>,
     <<"cond_stage_model">>, <<"conditioner", "embedders", "0">>,
     <<"conditioner", "embedders", "1">>, <<"extra">>}

\* the keys a checkpoint may hold
BlobKeys == {h \o <<TailNames[i]>> : h \in KeyHeads, i \in 1..NTail}

\* a blob holds each tensor under its key
Blob(K, src) == [k \in K |-> [src |-> src, key |-> k]]

Blobs == {Blob(K, "sd") : K \in SUBSET BlobKeys}

\* the external VAE blobs: none, or the keys of a VAE checkpoint
VaeBlobs ==
    {NoneV} \cup {[tag |-> "dict",
                   entries |-> Blob({<<"v", TailNames[i]>> : i \in 1..n}, "sd_vae")] :
                     n \in 0..NTail}

SplitIdle == [pc |-> "idle"]

ForgeIdle == [pc |-> "idle"]

SplitInit ==
    /\ splitter \in {[pc |-> "call", sd |-> sd, sd_vae |-> sd_vae, guess |-> g,
                      out |-> NoneV] :
                        sd \in Blobs, sd_vae \in VaeBlobs, g \in {SD15, SDXL}}
    /\ forge = ForgeIdle
    /\ layer = NoneV
    /\ saved = EmptyDict
    /\ savedQS = NoneV
    /\ nquant = 0
    /\ origin = "none"
    /\ last = NoOp

\* split_state_dict(sd, sd_vae) runs
Split ==
    /\ splitter.pc = "call"
    /\ splitter' = [splitter EXCEPT
                       !.pc = "done",
                       !.out = split_state_dict(splitter.sd, splitter.sd_vae,
                                                splitter.guess)]
    /\ UNCHANGED <<forge, bnbVars>>

SpecSplit == SplitInit /\ [][Split]_vars

-----------------------------------------------------------------------------
(* load_huggingface_component *)

\* component_name.startswith(stem), on the component names of the pipelines
startswith(component_name, stem) ==
    component_name \in {stem, stem \o "_2", stem \o "_3"}

FourBit == {"nf4", "fp4"}

Float8 == {"torch.float8_e4m3fn", "torch.float8_e5m2"}

\* the storage dtype of the backbone: the override of
\* backend.args.dynamic_args, else a quantized dtype found in the checkpoint,
\* else what memory_management.unet_dtype returned
unet_storage_dtype_detected_first(unet_dtype, unet_storage_dtype_overwrite, state_dict_dtype) ==
    IF state_dict_dtype \in Float8 \cup FourBit
    THEN state_dict_dtype
    ELSE IF unet_storage_dtype_overwrite # "None"
    THEN unet_storage_dtype_overwrite
    ELSE unet_dtype

unet_storage_dtype(unet_dtype, unet_storage_dtype_overwrite, state_dict_dtype) ==
    IF unet_storage_dtype_overwrite # "None"
    THEN unet_storage_dtype_overwrite
    ELSE IF state_dict_dtype \in Float8 \cup FourBit
    THEN state_dict_dtype
    ELSE unet_dtype

\* manual_cast_enabled as the backbone is built under using_forge_operations
manual_cast_enabled_whenever_differ(storage_dtype, computation_dtype) ==
    storage_dtype # computation_dtype

manual_cast_enabled(storage_dtype, computation_dtype) ==
    IF storage_dtype \in FourBit THEN FALSE
    ELSE storage_dtype # computation_dtype

\* the branch of load_huggingface_component for UNet2DConditionModel and
\* FluxTransformer2DModel
load_backbone(guess, cls_name, env) ==
    LET storage_dtype == unet_storage_dtype(env.unet_dtype,
                             env.forge_unet_storage_dtype, env.state_dict_dtype)
        computation_dtype == env.computation_dtype
    IN  [kind |-> cls_name,
         config |-> guess.name,
         bnb_dtype |-> IF storage_dtype \in FourBit THEN storage_dtype ELSE "None",
         dtype |-> IF storage_dtype \in FourBit THEN computation_dtype
                   ELSE storage_dtype,
         manual_cast_enabled |-> manual_cast_enabled(storage_dtype,
                                                     computation_dtype),
         storage_dtype |-> storage_dtype,
         computation_dtype |-> computation_dtype,
         load_device |-> "cuda:0",
         initial_device |-> env.initial_device,
         offload_device |-> "cpu"]

\* load_huggingface_component(guess, component_name, lib_name, cls_name,
\* repo_path, state_dict) when nothing it calls raises: the component, or NoneV
load_huggingface_component(guess, component_name, lib_name, cls_name, env) ==
    IF component_name \in {"feature_extractor", "safety_checker"} THEN NoneV
    ELSE IF lib_name \in {"transformers", "diffusers"}
    THEN IF component_name \in {"scheduler"}
         THEN [kind |-> cls_name]
         ELSE IF startswith(component_name, "tokenizer")
         THEN [kind |-> cls_name, warns |-> FALSE]
         ELSE IF cls_name \in {"AutoencoderKL"}
         THEN [kind |-> cls_name, dtype |-> "vae_dtype", device |-> "cpu"]
         ELSE IF /\ startswith(component_name, "text_encoder")
                 /\ cls_name \in {"CLIPTextModel", "CLIPTextModelWithProjection"}
         THEN [kind |-> "IntegratedCLIP", dtype |-> "text_encoder_dtype",
               device |-> "cpu", manual_cast_enabled |-> TRUE]
         ELSE IF cls_name = "T5EncoderModel"
         THEN [kind |-> "IntegratedT5",
               dtype |-> IF env.state_dict_dtype \in Float8
                         THEN env.state_dict_dtype ELSE "text_encoder_dtype",
               device |-> "cpu", manual_cast_enabled |-> TRUE]
         ELSE IF cls_name \in {"UNet2DConditionModel", "FluxTransformer2DModel"}
         THEN load_backbone(guess, cls_name, env)
         ELSE NoneV
    ELSE NoneV

-----------------------------------------------------------------------------
(* forge_loader *)

possible_models ==
    <<"StableDiffusion", "StableDiffusion2", "StableDiffusionXL", "Flux">>

SD20 ==
    [SD15 EXCEPT !.name = "SD20", !.mro = {"SD20"},
                 !.huggingface_repo = "stabilityai/stable-diffusion-2-1",
                 !.clip_target = << [k |-> <<"clip_h">>, v |-> "text_encoder"] >>,
                 !.replace_prefix = << [from |-> <<"cond_stage_model">>,
                                        to |-> <<"clip_h">>] >>]

\* a subclass of SD15
SD15_instructpix2pix ==
    [SD15 EXCEPT !.name = "SD15_instructpix2pix",
                 !.mro = {"SD15_instructpix2pix", "SD15"}]

Flux ==
    [name |-> "Flux", mro |-> {"Flux"},
     huggingface_repo |-> "black-forest-labs/FLUX.1-dev",
     unet_target |-> "transformer", vae_target |-> "vae",
     unet_key_prefix |-> << <<"model", "diffusion_model">> >>,
     vae_key_prefix |-> << <<"vae">> >>,
     clip_target |-> << [k |-> <<"clip_l">>, v |-> "text_encoder"],
                        [k |-> <<"t5xxl">>, v |-> "text_encoder_2"] >>,
     replace_prefix |->
        << [from |-> <<"text_encoders", "clip_l">>, to |-> <<"clip_l">>],
           [from |-> <<"text_encoders", "t5xxl">>, to |-> <<"t5xxl">>] >>]

Guesses == {SD15, SD20, SD15_instructpix2pix, SDXL, Flux}

\* model_index.json of the repository the guess names: the entries in order
PipelineConfig(repo) ==
    CASE repo = "stabilityai/stable-diffusion-xl-base-1.0" ->
           << [name |-> "_class_name", v |-> <<"StableDiffusionXLPipeline">>],
              [name |-> "force_zeros_for_empty_prompt", v |-> <<"true">>],
              [name |-> "image_encoder", v |-> <<"None", "None">>],
              [name |-> "scheduler", v |-> <<"diffusers", "EulerDiscreteScheduler">>],
              [name |-> "text_encoder", v |-> <<"transformers", "CLIPTextModel">>],
              [name |-> "text_encoder_2",
               v |-> <<"transformers", "CLIPTextModelWithProjection">>],
              [name |-> "tokenizer", v |-> <<"transformers", "CLIPTokenizer">>],
              [name |-> "tokenizer_2", v |-> <<"transformers", "CLIPTokenizer">>],
              [name |-> "unet", v |-> <<"diffusers", "UNet2DConditionModel">>],
              [name |-> "vae", v |-> <<"diffusers", "AutoencoderKL">>] >>
      [] repo = "black-forest-labs/FLUX.1-dev" ->
           << [name |-> "_class_name", v |-> <<"FluxPipeline">>],
              [name |-> "scheduler",
               v |-> <<"diffusers", "FlowMatchEulerDiscreteScheduler">>],
              [name |-> "text_encoder", v |-> <<"transformers", "CLIPTextModel">>],
              [name |-> "text_encoder_2", v |-> <<"transformers", "T5EncoderModel">>],
              [name |-> "tokenizer", v |-> <<"transformers", "CLIPTokenizer">>],
              [name |-> "tokenizer_2", v |-> <<"transformers", "T5TokenizerFast">>],
              [name |-> "transformer", v |-> <<"diffusers", "FluxTransformer2DModel">>],
              [name |-> "vae", v |-> <<"diffusers", "AutoencoderKL">>] >>
      [] OTHER ->
           << [name |-> "_class_name", v |-> <<"StableDiffusionPipeline">>],
              [name |-> "feature_extractor",
               v |-> <<"transformers", "CLIPImageProcessor">>],
              [name |-> "requires_safety_checker", v |-> <<"true">>],
              [name |-> "safety_checker",
               v |-> <<"stable_diffusion", "StableDiffusionSafetyChecker">>],
              [name |-> "scheduler", v |-> <<"diffusers", "PNDMScheduler">>],
              [name |-> "text_encoder", v |-> <<"transformers", "CLIPTextModel">>],
              [name |-> "tokenizer", v |-> <<"transformers", "CLIPTokenizer">>],
              [name |-> "unet", v |-> <<"diffusers", "UNet2DConditionModel">>],
              [name |-> "vae", v |-> <<"diffusers", "AutoencoderKL">>] >>

\* matched_guesses of the engines of possible_models: as in the engines, with
\* a guess several engines accept, and with guesses no engine accepts
Registries ==
    {[StableDiffusion |-> {"SD15"}, StableDiffusion2 |-> {"SD20"},
      StableDiffusionXL |-> {"SDXL"}, Flux |-> {"Flux"}],
     [StableDiffusion |-> {}, StableDiffusion2 |-> {"SD20", "SD15"},
      StableDiffusionXL |-> {"SDXL", "SD15"}, Flux |-> {"Flux", "SDXL"}],
     [StableDiffusion |-> {"SD15"}, StableDiffusion2 |-> {},
      StableDiffusionXL |-> {}, Flux |-> {}]}

\* what memory_management and backend.args answer while a component is built
DefaultEnv ==
    [unet_dtype |-> "torch.float16", forge_unet_storage_dtype |-> "None",
     state_dict_dtype |-> "torch.float16", computation_dtype |-> "torch.float16",
     initial_device |-> "cpu"]

Envs(cls_name) ==
    IF cls_name \in {"UNet2DConditionModel", "FluxTransformer2DModel"}
    THEN [unet_dtype : {"torch.float16", "torch.bfloat16"},
          forge_unet_storage_dtype : {"None", "torch.float8_e4m3fn", "nf4",
                                      "torch.bfloat16"},
          state_dict_dtype : {"torch.float16", "torch.float8_e4m3fn",
                              "torch.float8_e5m2", "nf4", "fp4"},
          computation_dtype : {"torch.float16", "torch.bfloat16"},
          initial_device : {"cpu"}]
    ELSE IF cls_name = "T5EncoderModel"
    THEN {DefaultEnv, [DefaultEnv EXCEPT !.state_dict_dtype = "torch.float8_e4m3fn"]}
    ELSE {DefaultEnv}

\* the first engine of possible_models one of whose matched_guesses the
\* guess is an instance of, built from the components; NoneV without one
assemble_last_match(matched_guesses, estimated_config, huggingface_components) ==
    LET hits == {i \in 1..Len(possible_models) :
                    matched_guesses[possible_models[i]] \cap estimated_config.mro # {}}
    IN  IF hits = {} THEN NoneV
        ELSE [engine |-> possible_models[CHOOSE i \in hits : \A j \in hits : j <= i],
              estimated_config |-> estimated_config.name,
              huggingface_components |-> huggingface_components]

assemble(matched_guesses, estimated_config, huggingface_components) ==
    LET hits == {i \in 1..Len(possible_models) :
                    matched_guesses[possible_models[i]] \cap estimated_config.mro # {}}
    IN  IF hits = {} THEN NoneV
        ELSE [engine |-> possible_models[CHOOSE i \in hits : \A j \in hits : i <= j],
              estimated_config |-> estimated_config.name,
              huggingface_components |-> huggingface_components]

ForgeBlobs ==
    {Blob(BlobKeys, "sd"),
     Blob({k \in BlobKeys : IsPrefix(<<"model", "diffusion_model">>, k)
                            \/ IsPrefix(<<"first_stage_model">>, k)}, "sd")}

ForgeInit ==
    /\ forge \in {[pc |-> "call", sd |-> sd, sd_vae |-> sd_vae, guess |-> g,
                   matched_guesses |-> r, state_dicts |-> EmptyDict,
                   config |-> <<>>, idx |-> 0, huggingface_components |-> EmptyDict,
                   called |-> <<>>, env |-> DefaultEnv, raised |-> "None",
                   result |-> NoneV] :
                     sd \in ForgeBlobs, sd_vae \in VaeBlobs,
                     g \in Guesses \cup {NoneV}, r \in Registries}
    /\ splitter = SplitIdle
    /\ layer = NoneV
    /\ saved = EmptyDict
    /\ savedQS = NoneV
    /\ nquant = 0
    /\ origin = "none"
    /\ last = NoOp

\* forge_loader up to its loop: split_state_dict, where the guess of
\* huggingface_guess may raise, and the pipeline's config
ForgeStart ==
    /\ forge.pc = "call"
    /\ forge' =
         IF forge.guess = NoneV
         THEN [forge EXCEPT !.pc = "raised",
                            !.raised = "ValueError: Failed to recognize model type!"]
         ELSE [forge EXCEPT
                  !.pc = "loop",
                  !.state_dicts = split_state_dict(forge.sd, forge.sd_vae,
                                                   forge.guess).state_dict,
                  !.config = PipelineConfig(forge.guess.huggingface_repo),
                  !.idx = 1]
    /\ UNCHANGED <<splitter, bnbVars>>

IsComponentEntry(v) == Len(v) = 2

\* an entry of the config that is no [library, class] pair is passed over
ForgeSkipEntry ==
    /\ forge.pc = "loop"
    /\ forge.idx <= Len(forge.config)
    /\ ~IsComponentEntry(forge.config[forge.idx].v)
    /\ forge' = [forge EXCEPT !.idx = @ + 1]
    /\ UNCHANGED <<splitter, bnbVars>>

\* one turn of the loop: load_huggingface_component returns
ForgeLoadComponent ==
    /\ forge.pc = "loop"
    /\ forge.idx <= Len(forge.config)
    /\ IsComponentEntry(forge.config[forge.idx].v)
    /\ LET component_name == forge.config[forge.idx].name
           lib_name == forge.config[forge.idx].v[1]
           cls_name == forge.config[forge.idx].v[2]
       IN  \E env \in Envs(cls_name) :
             LET component == load_huggingface_component(forge.guess,
                                  component_name, lib_name, cls_name, env)
             IN  forge' = [forge EXCEPT
                    !.idx = @ + 1,
                    !.called = Append(@, component_name),
                    !.env = env,
                    !.state_dicts = Restrict(@, DOMAIN @ \ {component_name}),
                    !.huggingface_components =
                        IF component # NoneV THEN Put(@, component_name, component)
                        ELSE @]
    /\ UNCHANGED <<splitter, bnbVars>>

\* one turn of the loop: a call load_huggingface_component makes to build the
\* component raises, and nothing in forge_loader catches it
ForgeComponentRaises ==
    /\ forge.pc = "loop"
    /\ forge.idx <= Len(forge.config)
    /\ IsComponentEntry(forge.config[forge.idx].v)
    /\ LET component_name == forge.config[forge.idx].name
           lib_name == forge.config[forge.idx].v[1]
           cls_name == forge.config[forge.idx].v[2]
       IN  /\ load_huggingface_component(forge.guess, component_name, lib_name,
                                         cls_name, DefaultEnv) # NoneV
           /\ forge' = [forge EXCEPT !.pc = "raised",
                                     !.called = Append(@, component_name),
                                     !.raised = component_name]
    /\ UNCHANGED <<splitter, bnbVars>>

\* after the loop: the engine, or None
ForgeAssemble ==
    /\ forge.pc = "loop"
    /\ forge.idx > Len(forge.config)
    /\ forge' = [forge EXCEPT
                    !.pc = "returned",
                    !.result = assemble(forge.matched_guesses, forge.guess,
                                        forge.huggingface_components)]
    /\ UNCHANGED <<splitter, bnbVars>>

ForgeNext ==
    \/ ForgeStart
    \/ ForgeSkipEntry
    \/ ForgeLoadComponent
    \/ ForgeComponentRaises
    \/ ForgeAssemble

SpecForge == ForgeInit /\ [][ForgeNext]_vars

-----------------------------------------------------------------------------
(* Properties of split_state_dict *)

RECURSIVE SumOver(_, _)
SumOver(S, f) ==
    IF S = {} THEN 0
    ELSE LET x == CHOOSE y \in S : TRUE
         IN  Cardinality(DOMAIN f[x]) + SumOver(S \ {x}, f)

Values(d) == {d[k] : k \in DOMAIN d}

\* the targets whose subset holds the tensor of key k of the main blob
TargetsOf(out, k) ==
    {t \in DOMAIN out.state_dict :
        [src |-> "sd", key |-> k] \in Values(out.state_dict[t])}

\* key k of the main blob matches a prefix split_state_dict filters by
Claimed(guess, k) ==
    \/ \E i \in 1..Len(guess.unet_key_prefix) : IsPrefix(guess.unet_key_prefix[i], k)
    \/ \E i \in 1..Len(guess.vae_key_prefix) : IsPrefix(guess.vae_key_prefix[i], k)
    \/ \E i \in 1..Len(guess.clip_target) :
          IsPrefix(guess.clip_target[i].k, ClipKey(guess, k))

\* every tensor of the main blob is in at most one subset, once; a tensor
\* whose key matches no prefix is in none
DisjointSubsets(sp) ==
    /\ \A k \in DOMAIN sp.sd :
          /\ Cardinality(TargetsOf(sp.out, k)) <= 1
          /\ ~Claimed(sp.guess, k) => TargetsOf(sp.out, k) = {}
    /\ \A t \in DOMAIN sp.out.state_dict :
          \A i, j \in DOMAIN sp.out.state_dict[t] :
              sp.out.state_dict[t][i] = sp.out.state_dict[t][j] => i = j

\* C2 as claimed: with or without an external VAE blob, the subsets are
\* disjoint and their key counts and the dropped keys add up to the key
\* count of the main blob.
C2_PartitionAsClaimed ==
    splitter.pc = "done" =>
        /\ DisjointSubsets(splitter)
        /\ SumOver(DOMAIN splitter.out.state_dict, splitter.out.state_dict)
             + Cardinality(DOMAIN splitter.out.ignore)
           = Cardinality(DOMAIN splitter.sd)

\* C2: the subsets are disjoint, and the key counts of the subsets filtered
\* from the main blob (every subset without an external VAE blob, every
\* subset but the VAE's with one) and the dropped keys add up to the key
\* count of the main blob.
C2_PartitionOfMainBlob ==
    splitter.pc = "done" =>
        LET main == IF splitter.sd_vae = NoneV
                    THEN DOMAIN splitter.out.state_dict
                    ELSE DOMAIN splitter.out.state_dict
                           \ {splitter.guess.vae_target}
        IN  /\ DisjointSubsets(splitter)
            /\ SumOver(main, splitter.out.state_dict)
                 + Cardinality(DOMAIN splitter.out.ignore)
               = Cardinality(DOMAIN splitter.sd)

\* a blob with keys of the backbone, of the VAE, of both text encoders and
\* of none was split next to an external VAE blob
C2_Witness ==
    /\ splitter.pc = "done"
    /\ splitter.guess.name = "SDXL"
    /\ splitter.sd_vae # NoneV
    /\ DOMAIN splitter.sd_vae.entries # {}
    /\ DOMAIN splitter.sd = BlobKeys
    /\ DOMAIN splitter.out.state_dict["text_encoder_2"] # {}
    /\ DOMAIN splitter.out.ignore # {}

\* C3: with an external VAE blob the VAE subset is that blob and holds no
\* tensor of the main blob; without one it is what the first matching VAE
\* prefix selects of the main blob, under the keys with the prefix cut.
C3_ExternalVaeReplaces ==
    splitter.pc = "done" =>
        LET vae == splitter.out.state_dict[splitter.guess.vae_target]
            ps == splitter.guess.vae_key_prefix
            hit(i) == {k \in DOMAIN splitter.sd :
                          IsPrefix(ps[i], k) /\ Len(k) > Len(ps[i])}
        IN  IF splitter.sd_vae # NoneV
            THEN /\ vae = splitter.sd_vae.entries
                 /\ \A x \in Values(vae) : x.src # "sd"
            ELSE \/ /\ \A i \in 1..Len(ps) : hit(i) = {}
                    /\ vae = EmptyDict
                 \/ \E i \in 1..Len(ps) :
                       /\ hit(i) # {}
                       /\ \A j \in 1..(i - 1) : hit(j) = {}
                       /\ DOMAIN vae = {StripPrefix(ps[i], k) : k \in hit(i)}
                       /\ \A k \in hit(i) :
                             vae[StripPrefix(ps[i], k)] = splitter.sd[k]

\* a main blob with VAE keys was split next to an external VAE blob
C3_Witness ==
    /\ splitter.pc = "done"
    /\ splitter.sd_vae # NoneV
    /\ DOMAIN splitter.sd_vae.entries # {}
    /\ \E k \in DOMAIN splitter.sd : IsPrefix(<<"first_stage_model">>, k)
    /\ splitter.out.state_dict["vae"] = splitter.sd_vae.entries

-----------------------------------------------------------------------------
(* Properties of load_huggingface_component and forge_loader *)

BackboneNames == {"unet", "transformer"}

\* the component load_huggingface_component returned last is the backbone
BackboneJustBuilt ==
    /\ forge.pc = "loop"
    /\ forge.called # <<>>
    /\ forge.called[Len(forge.called)] \in BackboneNames
    /\ forge.called[Len(forge.called)] \in DOMAIN forge.huggingface_components

Backbone == forge.huggingface_components[forge.called[Len(forge.called)]]

\* C1: the storage dtype attached to the backbone is the override when one is
\* set; else the dtype of the checkpoint when that is float8_e4m3fn,
\* float8_e5m2, nf4 or fp4; else the dtype of the memory policy.
C1_StorageDtypePriority ==
    BackboneJustBuilt =>
        LET e == forge.env
            quantized == {"torch.float8_e4m3fn", "torch.float8_e5m2", "nf4", "fp4"}
        IN  /\ e.forge_unet_storage_dtype # "None" =>
                  Backbone.storage_dtype = e.forge_unet_storage_dtype
            /\ (e.forge_unet_storage_dtype = "None"
                /\ e.state_dict_dtype \in quantized) =>
                  Backbone.storage_dtype = e.state_dict_dtype
            /\ (e.forge_unet_storage_dtype = "None"
                /\ e.state_dict_dtype \notin quantized) =>
                  Backbone.storage_dtype = e.unet_dtype

\* the override was set while the checkpoint held nf4 tensors
C1_Witness ==
    /\ BackboneJustBuilt
    /\ forge.env.forge_unet_storage_dtype = "torch.float8_e4m3fn"
    /\ forge.env.state_dict_dtype = "nf4"
    /\ Backbone.storage_dtype = "torch.float8_e4m3fn"

\* C4 as claimed: whatever happens while a component is loaded, forge_loader
\* goes through every component of the config, in order, and returns.
C4_FailureIsIsolated ==
    (forge.pc \in {"returned", "raised"} /\ forge.guess # NoneV) =>
        /\ forge.pc = "returned"
        /\ forge.called =
             SelectSeq([i \in 1..Len(forge.config) |-> forge.config[i].name],
                       LAMBDA n : \E i \in 1..Len(forge.config) :
                                     /\ forge.config[i].name = n
                                     /\ IsComponentEntry(forge.config[i].v))

\* C5 as claimed: manual casting is on exactly when the storage dtype of the
\* backbone differs from its computation dtype, 4-bit storage included.
C5_ManualCastWheneverDiffer ==
    BackboneJustBuilt =>
        (Backbone.manual_cast_enabled
            <=> Backbone.storage_dtype # Backbone.computation_dtype)

\* C5: with a storage dtype other than nf4 and fp4, manual casting is on
\* exactly when the storage dtype differs from the computation dtype; with
\* nf4 or fp4 it is off.
C5_ManualCastUnlessFourBit ==
    BackboneJustBuilt =>
        IF Backbone.storage_dtype \in {"nf4", "fp4"}
        THEN ~Backbone.manual_cast_enabled
        ELSE Backbone.manual_cast_enabled
                <=> Backbone.storage_dtype # Backbone.computation_dtype

\* a backbone stored in nf4 was built
C5_Witness ==
    /\ BackboneJustBuilt
    /\ Backbone.storage_dtype = "nf4"
    /\ Backbone.computation_dtype = "torch.float16"
    /\ ~Backbone.manual_cast_enabled

\* C6: once every component is built, forge_loader returns the engine of the
\* first entry of possible_models that accepts the guess, holding every
\* component that was built; when no entry accepts it, it returns None.
C6_FirstMatchingEngine ==
    forge.pc = "returned" =>
        LET accepts(i) == \E x \in forge.matched_guesses[possible_models[i]] :
                             x \in forge.guess.mro
            all == 1..Len(possible_models)
        IN  IF \E i \in all : accepts(i)
            THEN /\ forge.result # NoneV
                 /\ \E i \in all :
                       /\ accepts(i)
                       /\ \A j \in 1..(i - 1) : ~accepts(j)
                       /\ forge.result.engine = possible_models[i]
                 /\ forge.result.huggingface_components
                      = forge.huggingface_components
                 /\ \A n \in DOMAIN forge.result.huggingface_components :
                       \E i \in 1..Len(forge.called) : forge.called[i] = n
            ELSE forge.result = NoneV

\* a guess two engines accept got the engine of the first of them
C6_Witness ==
    /\ forge.pc = "returned"
    /\ forge.guess.name = "SD15"
    /\ forge.matched_guesses["StableDiffusion"] = {}
    /\ forge.result # NoneV
    /\ forge.result.engine = "StableDiffusion2"
    /\ "unet" \in DOMAIN forge.result.huggingface_components

====
